---- MODULE Spec2Model ----
(***************************************************************************)
(* Auduino granular synthesiser (src/src/auduino.cpp): the single voice    *)
(* voices[0], the four MIDI handlers installed by setup() and the PWM      *)
(* timer interrupt.  Phase, Env and Grain are declared in phase.h and      *)
(* grain.h, which are not part of the source tree at hand; their           *)
(* operations are modelled from the written specification.                 *)
(***************************************************************************)
EXTENDS Integers, Sequences, FiniteSets, TLC

VARIABLES note, env, sync, grains, led, pwm, ticks, events, last, onKeys,
          hpc, gap

vars == <<note, env, sync, grains, led, pwm, ticks, events, last, onKeys,
          hpc, gap>>

\* the voice proper: what the handlers and the interrupt read and write
voice == <<note, env, sync, grains>>

(***************************************************************************)
(* Bounds of the exploration.                                              *)
(***************************************************************************)
\* number of timer interrupts explored
MaxTicks == 5
\* number of MIDI events explored
MaxEvents == 3

(***************************************************************************)
(* Fixed-width arithmetic.                                                 *)
(***************************************************************************)
Byte == 2^8
Word == 2^16

RECURSIVE Pow2(_)
Pow2(k) == IF k = 0 THEN 1 ELSE 2 * Pow2(k - 1)

\* x >> k on a non-negative value
Shr(x, k) == x \div Pow2(k)

\* two's complement reading of a 16-bit / 8-bit pattern
ToInt16(x) == LET m == x % Word IN IF m >= 2^15 THEN m - Word ELSE m
ToInt8(x) == LET m == x % Byte IN IF m >= 2^7 THEN m - Byte ELSE m

(***************************************************************************)
(* Note::Gate                                                              *)
(***************************************************************************)
CLOSED == "CLOSED"
OPEN == "OPEN"

(***************************************************************************)
(* midiTable[128]: MIDI_TO_INC(p) = freqToInc(midiNoteToFreq(p), 65536,    *)
(* 31250), rounded; the values are those of the comment under the table.   *)
(* Entry p of the C array is midiTable[p + 1] here.                        *)
(***************************************************************************)
midiTable ==
  << 17,18,19,20,22,23,24,26,27,29,31,32,34,36,38,41,43,46,48,51,54,58,61,65,69,73,
     77,82,86,92,97,103,109,115,122,129,137,145,154,163,173,183,194,206,218,231,
     244,259,274,291,308,326,346,366,388,411,435,461,489,518,549,581,616,652,691,
     732,776,822,871,923,978,1036,1097,1163,1232,1305,1383,1465,1552,1644,1742,
     1845,1955,2071,2195,2325,2463,2610,2765,2930,3104,3288,3484,3691,3910,4143,
     4389,4650,4927,5220,5530,5859,6207,6577,6968,7382,7821,8286,8779,9301,9854,
     10440,11060,11718,12415,13153,13935,14764,15642,16572,17557,18601,19708,20879,
     22121,23436,24830,26306 >>

\* the valid indices of the C array
TableIndices == 0 .. (Len(midiTable) - 1)

\* what a read outside the table may deliver: some 16-bit word of program
\* memory (representatives of 0 .. 65535)
OobWords == {0, 65535}

\* pgm_read_word(&midiTable[i]): the entry, or an arbitrary word when i is
\* outside the array
PgmReadMidi(i) == IF i \in TableIndices THEN {midiTable[i + 1]} ELSE OobWords

(***************************************************************************)
(* Phase (phase.h): a 16-bit position and increment; the flag is what      *)
(* hasOverflowed() reports after the last operator++.                      *)
(***************************************************************************)
Phase0 == [pos |-> 0, inc |-> 0, ovf |-> FALSE]

\* operator++: position += increment modulo 2^16; overflow when the new
\* position is below the old one
PhaseAdvance(ph) ==
  LET np == (ph.pos + ph.inc) % Word
  IN  [ph EXCEPT !.pos = np, !.ovf = (np < ph.pos)]

hasOverflowed(ph) == ph.ovf

setInc(ph, v) == [ph EXCEPT !.inc = v]

\* modulate: an offset applied to the position, the increment untouched
modulate(ph, delta) == [ph EXCEPT !.pos = (ph.pos + delta) % Word]

(***************************************************************************)
(* Env (grain.h): amplitude, decay rate, clock divider and its counter.    *)
(***************************************************************************)
Env0 == [amp |-> 0, decay |-> 0, divider |-> 0, counter |-> 0]

\* a variant that decays by a fixed step 1 << decay, wrapping below zero
EnvTick_fixedStep(e) ==
  LET c == (e.counter + 1) % Byte
  IN  IF c = e.divider
        THEN [e EXCEPT !.counter = 0, !.amp = (e.amp - Pow2(e.decay)) % Word]
        ELSE [e EXCEPT !.counter = c]

\* tick(): count; when the counter reaches the divider, clear it and
\* subtract amp >> decay from amp, floored at zero
EnvTick(e) ==
  LET c == (e.counter + 1) % Byte
      d == Shr(e.amp, e.decay)
  IN  IF c = e.divider
        THEN [e EXCEPT !.counter = 0, !.amp = IF d > e.amp THEN 0 ELSE e.amp - d]
        ELSE [e EXCEPT !.counter = c]

\* value(): the high byte of the amplitude
EnvValue(e) == Shr(e.amp, 8)

(***************************************************************************)
(* Grain (grain.h): one Phase and one Env.                                 *)
(***************************************************************************)
\* the amplitude a grain restarts with
GrainFullScale == 32767

Grain0 == [phase |-> Phase0, env |-> Env0]

\* reset(): position to zero, envelope back to full scale with the decay
\* and divider the grain is configured with
GrainReset(g) ==
  [g EXCEPT !.phase.pos = 0, !.env.amp = GrainFullScale, !.env.counter = 0]

\* getSample(): a triangle read off the high bits of the position, scaled by
\* the high byte of the envelope amplitude
getSample(g) ==
  LET hi  == Shr(g.phase.pos, 7) % Byte
      tri == IF g.phase.pos >= 2^15 THEN (Byte - 1) - hi ELSE hi
  IN  (tri * Shr(g.env.amp, 8)) % Word

(***************************************************************************)
(* What the note-control layer may deliver (representatives of the 7-bit   *)
(* MIDI data bytes).                                                       *)
(***************************************************************************)
Keys == {20, 69, 127}
Velocities == {0, 1, 127}
Controllers == {1, 7, 16, 17}
ControlValues == {100}
\* pitch wheel: <<data[0], data[1]>>
BendData == {<<127, 127>>}

NoReset == [i \in 0..1 |-> FALSE]

NoSamples == [i \in 0..1 |-> 0]

\* the record kept of the last step taken (an observation, not program state):
\* the operation and its two data bytes, the table indices it read, and for
\* a tick the grains it restarted and the two getSample() results it mixed
Step(op, a, b, idx, rst) ==
  [op |-> op, a |-> a, b |-> b, idx |-> idx, reset |-> rst, smp |-> NoSamples]

\* the keys of the last two note-ons with nonzero velocity, oldest first
\* where the note-on handler stands when it is run store by store: the
\* number of stores done (0 outside the handler), its locals number and
\* velocity, and how many interrupts came between its stores
Idle == [pc |-> 0, number |-> 0, velocity |-> 0, irq |-> 0]
\* interrupts since grain i was last restarted, counted while its sync runs
NoGap == [i \in 0..1 |-> 0]
Remember(keys, n) == IF Len(keys) < 2 THEN Append(keys, n) ELSE <<keys[2], n>>

(***************************************************************************)
(* static struct Voice voices[2]: zero-initialised; voices[0] is the one   *)
(* voice the handlers and the interrupt use.                               *)
(***************************************************************************)
Init ==
  /\ note = [gate |-> CLOSED, number |-> 0, velocity |-> 0]
  /\ env = Env0
  /\ sync = [i \in 0..1 |-> Phase0]
  /\ grains = [i \in 0..1 |-> Grain0]
  /\ led = 0
  /\ pwm = 0
  /\ ticks = 0
  /\ events = 0
  /\ last = Step("init", 0, 0, <<>>, NoReset)
  /\ onKeys = <<>>
  /\ hpc = Idle
  /\ gap = NoGap

(***************************************************************************)
(* Midi.handlers.noteOn                                                    *)
(***************************************************************************)
\* a variant that keeps the key already sounding (first-note priority)
NoteOnNote_held(n, number, velocity) ==
  [gate |-> OPEN,
   number |-> IF n.gate = OPEN THEN n.number ELSE number,
   velocity |-> velocity]

\* note.number = number; note.velocity = velocity; note.gate = Note::OPEN;
NoteOnNote(n, number, velocity) ==
  [gate |-> OPEN, number |-> number, velocity |-> velocity]

\* a variant with the shift off by one the other way: velocity << 9
NoteOnEnv_shift9(e, velocity) ==
  [e EXCEPT !.amp = (velocity * 2^9) % Word, !.decay = 1, !.divider = 4]

\* a variant with the shift off by one: velocity << 7
NoteOnEnv_shift7(e, velocity) ==
  [e EXCEPT !.amp = (velocity * 2^7) % Word, !.decay = 1, !.divider = 4]

\* env.amp = velocity << 8; env.decay = 1; env.divider = 4;
NoteOnEnv(e, velocity) ==
  [e EXCEPT !.amp = (velocity * 2^8) % Word, !.decay = 1, !.divider = 4]

\* the midiTable indices read for sync[0] and sync[1]
NoteOnIndices(n) == <<n.number - 24, n.number - 17>>

noteOn(number, velocity) ==
  /\ events < MaxEvents
  /\ events' = events + 1
  /\ IF velocity # 0
       THEN /\ note' = NoteOnNote(note, number, velocity)
            /\ env' = NoteOnEnv(env, velocity)
            /\ \E w0 \in PgmReadMidi(NoteOnIndices(note')[1]),
                  w1 \in PgmReadMidi(NoteOnIndices(note')[2]) :
                 sync' = [sync EXCEPT ![0] = setInc(@, w0), ![1] = setInc(@, w1)]
            /\ last' = Step("noteOn", number, velocity, NoteOnIndices(note'), NoReset)
            /\ onKeys' = Remember(onKeys, number)
       ELSE /\ IF note.number = number
                 THEN note' = [note EXCEPT !.gate = CLOSED]
                 ELSE note' = note
            /\ last' = Step("noteOn", number, velocity, <<>>, NoReset)
            /\ UNCHANGED <<env, sync, onKeys>>
  /\ UNCHANGED <<grains, led, pwm, ticks, hpc, gap>>

(***************************************************************************)
(* Midi.handlers.noteOff                                                   *)
(***************************************************************************)
\* a variant without the comparison against the held key
noteOff_anyKey(number) ==
  /\ events < MaxEvents
  /\ events' = events + 1
  /\ note' = [note EXCEPT !.gate = CLOSED]
  /\ last' = Step("noteOff", number, 0, <<>>, NoReset)
  /\ UNCHANGED <<env, sync, grains, led, pwm, ticks, onKeys, hpc, gap>>

noteOff(number) ==
  /\ events < MaxEvents
  /\ events' = events + 1
  /\ IF note.number = number
       THEN note' = [note EXCEPT !.gate = CLOSED]
       ELSE note' = note
  /\ last' = Step("noteOff", number, 0, <<>>, NoReset)
  /\ UNCHANGED <<env, sync, grains, led, pwm, ticks, onKeys, hpc, gap>>

(***************************************************************************)
(* Midi.handlers.controlChange, a variant: case 17 written by copying case *)
(* 16 without changing the grain                                           *)
(***************************************************************************)
controlChange_sameGrain(controller, value) ==
  /\ events < MaxEvents
  /\ events' = events + 1
  /\ grains' =
       CASE controller = 1 ->
              [grains EXCEPT ![0].env.decay = Shr(value, 3),
                             ![1].env.decay = Shr(value, 4)]
         [] controller \in {16, 17} ->
              [grains EXCEPT ![0].phase = setInc(@, midiTable[value + 1])]
         [] OTHER -> grains
  /\ last' = Step("controlChange", controller, value,
                  IF controller \in {16, 17} THEN <<value>> ELSE <<>>, NoReset)
  /\ UNCHANGED <<note, env, sync, led, pwm, ticks, onKeys, hpc, gap>>

(***************************************************************************)
(* Midi.handlers.controlChange                                             *)
(***************************************************************************)
controlChange(controller, value) ==
  /\ events < MaxEvents
  /\ events' = events + 1
  /\ grains' =
       CASE controller = 1 ->
              [grains EXCEPT ![0].env.decay = Shr(value, 3),
                             ![1].env.decay = Shr(value, 4)]
         [] controller = 16 ->
              [grains EXCEPT ![0].phase = setInc(@, midiTable[value + 1])]
         [] controller = 17 ->
              [grains EXCEPT ![1].phase = setInc(@, midiTable[value + 1])]
         [] OTHER -> grains
  /\ last' = Step("controlChange", controller, value,
                  IF controller \in {16, 17} THEN <<value>> ELSE <<>>, NoReset)
  /\ UNCHANGED <<note, env, sync, led, pwm, ticks, onKeys, hpc, gap>>

(***************************************************************************)
(* Midi.handlers.pitchWheelChange                                          *)
(***************************************************************************)
pitchWheelChange(d0, d1) ==
  LET value == d1 * 2^7 + d0    \* data[1] << 7 | data[0], both 7-bit
  IN  /\ events < MaxEvents
      /\ events' = events + 1
      /\ sync' = [i \in 0..1 |-> modulate(sync[i], value)]
      /\ last' = Step("pitchWheelChange", d0, d1, <<>>, NoReset)
      /\ UNCHANGED <<note, env, grains, led, pwm, ticks, onKeys, hpc, gap>>

(***************************************************************************)
(* ISR(PWM_INTERRUPT), step by step.                                       *)
(***************************************************************************)
\* a variant that leaves out the second advance
SyncAdvance_firstOnly(sy) ==
  [i \in 0..1 |-> IF i = 0 THEN PhaseAdvance(sy[0]) ELSE sy[1]]

\* a variant that advances sync[0] twice and sync[1] not at all
SyncAdvance_sameTwice(sy) ==
  [i \in 0..1 |-> IF i = 0 THEN PhaseAdvance(PhaseAdvance(sy[0])) ELSE sy[1]]

\* ++voices[0].sync[0]; ++voices[0].sync[1];
SyncAdvance(sy) == [i \in 0..1 |-> PhaseAdvance(sy[i])]

\* a variant in which either overflow restarts both grains
Overflowed_either(sy) ==
  [i \in 0..1 |-> hasOverflowed(sy[0]) \/ hasOverflowed(sy[1])]

\* which grains the tick restarts: grain i when sync[i] has overflowed
Overflowed(sy) == [i \in 0..1 |-> hasOverflowed(sy[i])]

\* a variant that resets the other grain
Retrigger_swapped(rst, gr) ==
  [i \in 0..1 |-> IF rst[1 - i] THEN GrainReset(gr[i]) ELSE gr[i]]

\* if (sync[i].hasOverflowed()) grains[i].reset();
Retrigger(rst, gr) == [i \in 0..1 |-> IF rst[i] THEN GrainReset(gr[i]) ELSE gr[i]]

\* ++voices[0].grains[i].phase;
GrainAdvance(gr) == [i \in 0..1 |-> [gr[i] EXCEPT !.phase = PhaseAdvance(@)]]

\* uint16_t output = grains[0].getSample(); output += grains[1].getSample();
Mix(gr) == (getSample(gr[0]) + getSample(gr[1])) % Word

\* voices[0].grains[i].env.tick();
GrainDecay(gr) == [i \in 0..1 |-> [gr[i] EXCEPT !.env = EnvTick(@)]]

\* a variant with the gate test inverted
MasterDecay_whenOpen(n, e) == IF n.gate = OPEN THEN EnvTick(e) ELSE e

\* a variant without the gate test
MasterDecay_always(n, e) == EnvTick(e)

\* if (note.gate == Note::CLOSED) env.tick();
MasterDecay(n, e) == IF n.gate = CLOSED THEN EnvTick(e) ELSE e

\* int8_t scaled_output = static_cast<uint8_t>(output >> 7) - 128;
ScaledOutput(output) == ToInt8((Shr(output, 7) % Byte) - 128)

\* mulsu(scaled_output, 2) and scaled_output_x2 += scaled_output_x2 * value,
\* as the integer it is before it is stored in 16 bits
MulAcc(scaled, value) == 2 * scaled + (2 * scaled) * value

\* a variant that takes the high byte by a division truncating toward zero
\* instead of the arithmetic shift
PwmOut_truncating(output, e) ==
  LET acc == ToInt16(MulAcc(ScaledOutput(output), EnvValue(e)))
      hi  == IF acc < 0 THEN -((-acc) \div 2^8) ELSE acc \div 2^8
  IN  ((hi % Byte) + 128) % Byte

\* scaled_output, mulsu(scaled_output, 2), the multiply-accumulate with the
\* master envelope's value and the byte written to PWM_VALUE
PwmOut(output, e) ==
  LET acc == ToInt16(MulAcc(ScaledOutput(output), EnvValue(e)))
  IN  (((acc \div 2^8) % Byte) + 128) % Byte

\* the interrupt with the grain envelopes ticked before the samples are
\* computed instead of after
IsrBody_decayFirst ==
  LET sy  == SyncAdvance(sync)
      rst == Overflowed(sy)
      g1  == GrainDecay(GrainAdvance(Retrigger(rst, grains)))
      out == Mix(g1)
      e1  == MasterDecay(note, env)
  IN  /\ sync' = sy
      /\ grains' = g1
      /\ led' = IF rst[0] THEN 1 - led ELSE led
      /\ env' = e1
      /\ pwm' = PwmOut(out, e1)
      /\ last' = [Step("tick", 0, 0, <<>>, rst)
                    EXCEPT !.smp = [i \in 0..1 |-> getSample(g1[i])]]
      /\ UNCHANGED <<note, events, onKeys>>

\* the body of the interrupt handler, its statements in program order
IsrBody ==
  LET sy  == SyncAdvance(sync)
      rst == Overflowed(sy)
      g1  == GrainAdvance(Retrigger(rst, grains))
      out == Mix(g1)
      e1  == MasterDecay(note, env)
  IN  /\ sync' = sy
      /\ grains' = GrainDecay(g1)
      /\ led' = IF rst[0] THEN 1 - led ELSE led
      /\ env' = e1
      /\ pwm' = PwmOut(out, e1)
      /\ last' = [Step("tick", 0, 0, <<>>, rst)
                    EXCEPT !.smp = [i \in 0..1 |-> getSample(g1[i])]]
      /\ UNCHANGED <<note, events, onKeys>>

ISR ==
  /\ ticks < MaxTicks
  /\ ticks' = ticks + 1
  /\ IsrBody
  /\ UNCHANGED <<hpc, gap>>

(***************************************************************************)
(* The program: MIDI events and timer interrupts in any order.             *)
(***************************************************************************)
Next ==
  \/ \E n \in Keys, v \in Velocities : noteOn(n, v)
  \/ \E n \in Keys : noteOff(n)
  \/ \E c \in Controllers, v \in ControlValues : controlChange(c, v)
  \/ \E d \in BendData : pitchWheelChange(d[1], d[2])
  \/ ISR

Spec == Init /\ [][Next]_vars

(***************************************************************************)
(* The note-on handler run store by store, the interrupt free to come      *)
(* between any two of its stores (the handler runs in the foreground, the  *)
(* interrupt preempts it and runs to completion).  The stores are taken in *)
(* the order of the statements.                                            *)
(***************************************************************************)
\* a variant in which the gate is stored last
NoteOnStores_gateLast ==
  <<"number", "velocity", "amp", "decay", "divider", "inc0", "inc1", "gate">>

\* the stores of the velocity != 0 branch, in statement order
NoteOnStores ==
  <<"number", "velocity", "gate", "amp", "decay", "divider", "inc0", "inc1">>

PreKeys == {69}
PreVelocities == {1, 127}

\* entry: the locals number and velocity are read from the message
NoteOnBegin(number, velocity) ==
  /\ hpc.pc = 0
  /\ velocity # 0
  /\ events < MaxEvents
  /\ events' = events + 1
  /\ hpc' = [pc |-> 1, number |-> number, velocity |-> velocity, irq |-> 0]
  /\ last' = Step("noteOnBegin", number, velocity, <<>>, NoReset)
  /\ UNCHANGED <<note, env, sync, grains, led, pwm, ticks, onKeys, gap>>

\* the next store of the handler; after the last one the handler returns
NoteOnStore ==
  /\ hpc.pc > 0
  /\ LET f    == NoteOnStores[hpc.pc]
         n1   == NoteOnNote(note, hpc.number, hpc.velocity)
         e1   == NoteOnEnv(env, hpc.velocity)
         done == hpc.pc = Len(NoteOnStores)
     IN  /\ note' = CASE f = "number"   -> [note EXCEPT !.number = n1.number]
                      [] f = "velocity" -> [note EXCEPT !.velocity = n1.velocity]
                      [] f = "gate"     -> [note EXCEPT !.gate = n1.gate]
                      [] OTHER          -> note
         /\ env' = CASE f = "amp"     -> [env EXCEPT !.amp = e1.amp]
                     [] f = "decay"   -> [env EXCEPT !.decay = e1.decay]
                     [] f = "divider" -> [env EXCEPT !.divider = e1.divider]
                     [] OTHER         -> env
         /\ \E w0 \in PgmReadMidi(NoteOnIndices(note)[1]),
               w1 \in PgmReadMidi(NoteOnIndices(note)[2]) :
              sync' = CASE f = "inc0" -> [sync EXCEPT ![0] = setInc(@, w0)]
                        [] f = "inc1" -> [sync EXCEPT ![1] = setInc(@, w1)]
                        [] OTHER      -> sync
         /\ hpc' = [hpc EXCEPT !.pc = IF done THEN 0 ELSE @ + 1]
         /\ last' = IF done
                      THEN Step("noteOn", hpc.number, hpc.velocity,
                                NoteOnIndices(note'), NoReset)
                      ELSE Step("store", hpc.pc, 0, <<>>, NoReset)
         /\ onKeys' = IF done THEN Remember(onKeys, hpc.number) ELSE onKeys
  /\ UNCHANGED <<grains, led, pwm, ticks, events, gap>>

\* the interrupt, counted when it comes inside the handler
IsrPre ==
  /\ ticks < MaxTicks
  /\ ticks' = ticks + 1
  /\ IsrBody
  /\ hpc' = IF hpc.pc > 0 THEN [hpc EXCEPT !.irq = @ + 1] ELSE hpc
  /\ UNCHANGED gap

\* note-off between two note-ons
NoteOffPre(number) == hpc.pc = 0 /\ noteOff(number)

NextPre ==
  \/ \E n \in PreKeys, v \in PreVelocities : NoteOnBegin(n, v)
  \/ NoteOnStore
  \/ \E n \in PreKeys : NoteOffPre(n)
  \/ IsrPre

SpecPre == Init /\ [][NextPre]_vars

(***************************************************************************)
(* The interrupt alone, started from sampled phase and envelope contents:  *)
(* the setting for the properties of Phase, Env and Grain that are stated  *)
(* for all field values.                                                   *)
(***************************************************************************)
PositionSamples == {0, 1, 464, 32768, 65000, 65535}
IncrementSamples == {0, 1, 1000, 6577, 65535}
AmplitudeSamples == {0, 1, 255, 32512, 32767, 65535}
\* decay rates the handlers can set: 1 (noteOn), value >> 3 and value >> 4
DecaySamples == {0, 1, 7, 15}
DividerSamples == {0, 1, 4}
CounterSamples == {0, 3, 255}

InitUnit ==
  \E p \in PositionSamples, d \in IncrementSamples, q \in PositionSamples,
     a \in AmplitudeSamples, r \in DecaySamples, v \in DividerSamples,
     c \in CounterSamples, g \in {CLOSED, OPEN} :
    LET e == [amp |-> a, decay |-> r, divider |-> v, counter |-> c]
    IN  /\ note = [gate |-> g, number |-> 0, velocity |-> 0]
        /\ env = e
        /\ sync = [i \in 0..1 |-> IF i = 0 THEN [pos |-> p, inc |-> d, ovf |-> FALSE]
                                          ELSE [pos |-> q, inc |-> d, ovf |-> FALSE]]
        /\ grains = [i \in 0..1 |-> [phase |-> [pos |-> IF i = 0 THEN q ELSE p,
                                                 inc |-> d, ovf |-> FALSE],
                                     env |-> e]]
        /\ led = 0
        /\ pwm = 0
        /\ ticks = 0
        /\ events = 0
        /\ last = Step("init", 0, 0, <<>>, NoReset)
        /\ onKeys = <<>>
        /\ hpc = Idle
        /\ gap = NoGap

NextUnit == ISR

SpecUnit == InitUnit /\ [][NextUnit]_vars

(***************************************************************************)
(* The output stage alone: one interrupt after another from voices whose   *)
(* two grains stand still (increment 0) at full-scale amplitude, at        *)
(* sampled positions that make the mixed sample sweep its range, under     *)
(* sampled master volumes.                                                 *)
(***************************************************************************)
TriangleSteps == 0..255
VolumeSamples == {0, 1, 64, 127}

InitOut ==
  \E t0 \in TriangleSteps, t1 \in {0, 255}, v \in VolumeSamples,
     g \in {CLOSED, OPEN} :
    /\ note = [gate |-> g, number |-> 0, velocity |-> 0]
    /\ env = [amp |-> v * 2^8, decay |-> 1, divider |-> 1, counter |-> 0]
    /\ sync = [i \in 0..1 |-> Phase0]
    /\ grains = [i \in 0..1 |->
                  [phase |-> [pos |-> 2^7 * (IF i = 0 THEN t0 ELSE t1),
                              inc |-> 0, ovf |-> FALSE],
                   env |-> [Env0 EXCEPT !.amp = GrainFullScale]]]
    /\ led = 0
    /\ pwm = 0
    /\ ticks = 0
    /\ events = 0
    /\ last = Step("init", 0, 0, <<>>, NoReset)
    /\ onKeys = <<>>
    /\ hpc = Idle
    /\ gap = NoGap

NextOut == ISR

SpecOut == InitOut /\ [][NextOut]_vars

(***************************************************************************)
(* The free-running program: the timer interrupt keeps firing (the timer   *)
(* overflow interrupt is enabled once by audioOn() and never disabled), so *)
(* it is weakly fair; one note is played and perhaps released before the   *)
(* first RunWindow interrupts are over, then the interrupt runs on alone.  The key played    *)
(* is one whose sync increments (32 and 48) give the shortest orbit.       *)
(***************************************************************************)
RunKeys == {35}
RunVelocities == {1, 127}

\* number of interrupts before which the MIDI events of a run arrive
RunWindow == 1

\* one note is played
RunNoteOn(number, velocity) ==
  ticks < RunWindow /\ onKeys = <<>> /\ noteOn(number, velocity)

\* and released
RunNoteOff(number) ==
  ticks < RunWindow /\ note.gate = OPEN /\ noteOff(number)

\* the interrupt; ticks counts the first MaxTicks of them, gap the interrupts
\* since each grain's last restart
RunTick ==
  /\ IsrBody
  /\ ticks' = IF ticks < MaxTicks THEN ticks + 1 ELSE ticks
  /\ gap' = [i \in 0..1 |->
               IF last'.reset[i] \/ sync[i].inc = 0 THEN 0 ELSE gap[i] + 1]
  /\ UNCHANGED hpc

NextRun ==
  \/ \E n \in RunKeys, v \in RunVelocities : RunNoteOn(n, v)
  \/ \E n \in RunKeys : RunNoteOff(n)
  \/ RunTick

SpecRun == Init /\ [][NextRun]_vars /\ WF_vars(RunTick)

(***************************************************************************)
(* Properties of the note handlers.                                        *)
(***************************************************************************)
\* the step just taken, read off the record of it
IsNoteOn(l) == l.op = "noteOn" /\ l.b > 0
IsClosing(l) == l.op = "noteOff" \/ (l.op = "noteOn" /\ l.b = 0)
EventStep == events' = events + 1
TickStep == ticks' = ticks + 1

\* C1: after a note-on with velocity v > 0 and key n, whatever the state it
\* arrived in, note.number = n, note.velocity = v, the gate is OPEN and the
\* master envelope has amp = v << 8, decay = 1, divider = 4.
C1_NoteOnSetsVoice ==
  IsNoteOn(last) =>
    /\ note.number = last.a
    /\ note.velocity = last.b
    /\ note.gate = OPEN
    /\ env.amp = last.b * 256
    /\ (last.b = 127 => env.amp = 32512)
    /\ env.decay = 1
    /\ env.divider = 4

\* a note-on (69, 127) that arrived while key 20 was held with the gate OPEN
C1_Witness ==
  /\ IsNoteOn(last) /\ last.a = 69 /\ last.b = 127
  /\ events = 2 /\ onKeys = <<20, 69>>
  /\ env.amp = 32512

\* C2: a note-on with velocity > 0 and key n sets sync[0].inc to the table
\* entry for pitch n - 24 and sync[1].inc to the entry for pitch n - 17, and
\* leaves the sync positions and the grains as they were.
C2_NoteOnSyncIncrements ==
  [][(EventStep /\ IsNoteOn(last')) =>
       /\ last'.a - 24 \in TableIndices
       /\ sync'[0].inc = midiTable[last'.a - 24 + 1]
       /\ last'.a - 17 \in TableIndices
       /\ sync'[1].inc = midiTable[last'.a - 17 + 1]
       /\ \A i \in 0..1 : sync'[i].pos = sync[i].pos
       /\ grains' = grains]_vars

\* C2 for the keys whose two pitches are table entries, 24 .. 127
C2_InTableKeys ==
  [][(EventStep /\ IsNoteOn(last') /\ last'.a >= 24) =>
       /\ sync'[0].inc = midiTable[last'.a - 24 + 1]
       /\ sync'[1].inc = midiTable[last'.a - 17 + 1]
       /\ (last'.a = 69 => sync'[0].inc = 231 /\ sync'[1].inc = 346)
       /\ \A i \in 0..1 : sync'[i].pos = sync[i].pos
       /\ grains' = grains]_vars

\* C3: for a note-on with velocity > 0 and a key in 0 .. 127, every index
\* the handler reads from midiTable lies in 0 .. 127.
C3_NoteOnReadsInBounds ==
  (IsNoteOn(last) /\ last.a \in 0..127) =>
    \A k \in 1..Len(last.idx) : last.idx[k] \in 0..127

\* C4: the gate goes from OPEN to CLOSED only by a note-off or zero-velocity
\* note-on for the key in note.number; such an event always leaves the gate
\* CLOSED and changes nothing else of the voice; one for any other key
\* changes nothing of the voice at all.
C4_GateClosesOnHeldKeyOnly ==
  [][/\ (note.gate = OPEN /\ note'.gate = CLOSED) =>
          (EventStep /\ IsClosing(last') /\ last'.a = note.number)
     /\ (EventStep /\ IsClosing(last') /\ last'.a = note.number) =>
          /\ note' = [note EXCEPT !.gate = CLOSED]
          /\ UNCHANGED <<env, sync, grains>>
     /\ (EventStep /\ IsClosing(last') /\ last'.a # note.number) =>
          UNCHANGED voice]_vars

\* a note-off for the held key, right after the note-on that opened the gate
C4_Witness ==
  /\ last.op = "noteOff" /\ last.a = note.number
  /\ events = 2 /\ Len(onKeys) = 1 /\ onKeys[1] = note.number
  /\ note.gate = CLOSED /\ note.velocity > 0

\* C5: the voice tracks the key of the latest note-on with nonzero velocity
\* only: note.number is that key, the gate is OPEN right after it, and an
\* OPEN gate is closed by a closing event exactly when the event's key is
\* that key (so not by one for a key played earlier).
C5_LastNotePriority ==
  [][/\ (onKeys' # <<>>) => note'.number = onKeys'[Len(onKeys')]
     /\ (EventStep /\ IsNoteOn(last')) => note'.gate = OPEN
     /\ (EventStep /\ IsClosing(last') /\ note.gate = OPEN /\ onKeys # <<>>) =>
          ((note'.gate = CLOSED) <=> (last'.a = onKeys[Len(onKeys)]))]_vars

\* note-on A, note-on B, then a closing event for A: the gate is still OPEN
\* and the voice still holds B
C5_Witness ==
  /\ events = 3 /\ Len(onKeys) = 2 /\ onKeys[1] # onKeys[2]
  /\ IsClosing(last) /\ last.a = onKeys[1]
  /\ note.gate = OPEN /\ note.number = onKeys[2]

(***************************************************************************)
(* Properties of the interrupt.                                            *)
(***************************************************************************)
\* whether sync[i], as it stands, wraps on its next advance
Wraps(ph) == ph.pos + ph.inc >= Word

\* what one interrupt makes of a grain that is, or is not, restarted in it
GrainAfterTick(g, restarted) ==
  LET g0 == IF restarted
              THEN [g EXCEPT !.phase.pos = 0, !.env.amp = GrainFullScale,
                             !.env.counter = 0]
              ELSE g
      np == (g0.phase.pos + g0.phase.inc) % Word
      c  == (g0.env.counter + 1) % Byte
  IN  [phase |-> [pos |-> np, inc |-> g.phase.inc, ovf |-> np < g0.phase.pos],
       env |-> IF c = g0.env.divider
                 THEN [g0.env EXCEPT !.counter = 0,
                                     !.amp = g0.env.amp - Shr(g0.env.amp, g0.env.decay)]
                 ELSE [g0.env EXCEPT !.counter = c]]

\* C6: a tick ticks the master envelope exactly when the gate is CLOSED at
\* that tick: with the gate OPEN the tick leaves every master envelope field
\* alone (the amplitude stays at velocity << 8, as the last note-on set it),
\* with the gate CLOSED it applies one tick().
C6_MasterTickedIffClosed ==
  [][/\ TickStep =>
          IF note.gate = OPEN
            THEN env' = env
            ELSE /\ env'.counter = IF (env.counter + 1) % Byte = env.divider
                                     THEN 0 ELSE (env.counter + 1) % Byte
                 /\ env'.amp = IF (env.counter + 1) % Byte = env.divider
                                 THEN env.amp - Shr(env.amp, env.decay) ELSE env.amp
                 /\ env'.decay = env.decay /\ env'.divider = env.divider
     /\ note'.gate = OPEN => env'.amp = note'.velocity * 256]_vars

\* released after a note-on with velocity 127 and decayed once: 32512 -> 16256
C6_Witness ==
  /\ last.op = "tick" /\ note.gate = CLOSED /\ note.velocity = 127
  /\ env.amp = 16256 /\ env.counter = 0

C8_AdvanceWrapsAndReports ==
  [][TickStep =>
       \A i \in 0..1 :
         LET p == sync[i].pos
             d == sync[i].inc
         IN  /\ sync'[i].pos = (p + d) % Word
             /\ sync'[i].inc = d
             /\ hasOverflowed(sync'[i]) <=> (sync'[i].pos < p)
             /\ hasOverflowed(sync'[i]) <=> (p + d >= Word)
             /\ (p = 65000 /\ d = 1000) => (sync'[i].pos = 464 /\ hasOverflowed(sync'[i]))
             /\ d = 0 => ~hasOverflowed(sync'[i])]_vars

\* the first tick took sync[0] from 65000 to 464 by its increment 1000
C8_Witness ==
  /\ last.op = "tick" /\ ticks = 1
  /\ sync[0].pos = 464 /\ sync[0].inc = 1000 /\ hasOverflowed(sync[0])

\* C9: a tick never raises an envelope's amplitude unless it restarts the
\* grain, and every amplitude stays within 0 .. 65535, for the decay rates
\* and dividers the handlers can set.
C9_AmplitudeNonIncreasing ==
  [][TickStep =>
       /\ env'.amp <= env.amp
       /\ env'.amp \in 0 .. (Word - 1)
       /\ \A i \in 0..1 :
            /\ grains'[i].env.amp \in 0 .. (Word - 1)
            /\ ~last'.reset[i] => grains'[i].env.amp <= grains[i].env.amp]_vars

\* grain 0, not restarted, decayed from 32767 to 16384 with rate 1 in the
\* first tick
C9_Witness ==
  /\ last.op = "tick" /\ ticks = 1 /\ ~last.reset[0]
  /\ grains[0].env.decay = 1 /\ grains[0].env.amp = 16384

\* C10: a grain restarted in a tick ends the tick one advance past position
\* 0 and one envelope tick past the full-scale amplitude, whatever its
\* position, amplitude and counter were; its increment, decay rate and
\* divider are those it had.
C10_ResetRestartsGrain ==
  [][TickStep =>
       \A i \in 0..1 :
         last'.reset[i] =>
           LET g == grains[i]
               h == grains'[i]
               decays == (1 % Byte) = g.env.divider
           IN  /\ h.phase.pos = g.phase.inc
               /\ h.phase.inc = g.phase.inc
               /\ h.env.decay = g.env.decay
               /\ h.env.divider = g.env.divider
               /\ h.env.counter = IF decays THEN 0 ELSE 1
               /\ h.env.amp = IF decays
                                THEN GrainFullScale - Shr(GrainFullScale, g.env.decay)
                                ELSE GrainFullScale]_vars

\* grain 0 restarted from position 32768 (the sampled start it shares with sync[1])
C10_Witness ==
  /\ last.op = "tick" /\ ticks = 1 /\ last.reset[0]
  /\ sync[1].pos = 32768 + sync[1].inc /\ sync[1].inc = 1000
  /\ grains[0].phase.pos = 1000
  /\ grains[0].env.amp = GrainFullScale /\ grains[0].env.divider = 4
  /\ grains[0].env.counter = 1

(***************************************************************************)
(* Properties of the control path against the interrupt.                   *)
(***************************************************************************)
\* C12: no handler writes a field the interrupt itself advances or decays:
\* a phase position, or the amplitude of an envelope the interrupt ticks.
C12_HandlersWriteInputsOnly ==
  [][EventStep =>
       /\ env'.amp = env.amp
       /\ \A i \in 0..1 :
            /\ sync'[i].pos = sync[i].pos
            /\ grains'[i].phase.pos = grains[i].phase.pos
            /\ grains'[i].env.amp = grains[i].env.amp]_vars

\* C13: a control change leaves note, master envelope and sync alone;
\* controller 1 changes only the two grain decay rates (value >> 3 and
\* value >> 4), controllers 16 and 17 only the phase increment of grain 0 and
\* of grain 1 (the table entry for value), any other controller nothing.
C13_ControlChangeFrame ==
  [][(EventStep /\ last'.op = "controlChange") =>
       LET c == last'.a
           v == last'.b
       IN  /\ UNCHANGED <<note, env, sync>>
           /\ c = 1 => grains' = [grains EXCEPT ![0].env.decay = v \div 8,
                                                ![1].env.decay = v \div 16]
           /\ c = 16 => grains' = [grains EXCEPT ![0].phase.inc = midiTable[v + 1]]
           /\ c = 17 => grains' = [grains EXCEPT ![1].phase.inc = midiTable[v + 1]]
           /\ c \notin {1, 16, 17} => grains' = grains]_vars

\* controller 17 with value 100 while a note is held: grain 1's increment is
\* entry 100, grain 0's is untouched
C13_Witness ==
  /\ last.op = "controlChange" /\ last.a = 17 /\ last.b = 100
  /\ grains[1].phase.inc = 5530 /\ grains[0].phase.inc = 0
  /\ note.gate = OPEN /\ note.number = 69

\* C14: a note-on with nonzero velocity reinitialises all four fields of the
\* master envelope: amp = velocity << 8, decay = 1, divider = 4 and the
\* divider's counter back to 0 (so that the release's first decay step comes
\* 4 closed-gate ticks after the gate closes).
C14_NoteOnReinitialisesEnvelope ==
  IsNoteOn(last) =>
    env = [amp |-> last.b * 256, decay |-> 1, divider |-> 4, counter |-> 0]

\* three ticks before the note-on left the counter at 3: the release decays
\* the amplitude on its first closed-gate tick
C14_EarlyDecay ==
  /\ last.op = "tick" /\ ticks = 4 /\ events = 2 /\ note.gate = CLOSED
  /\ note.number = 69 /\ note.velocity = 127
  /\ sync[0].pos = 231 /\ env.amp = 16256

(***************************************************************************)
(* Properties of the order of steps within one interrupt.                  *)
(***************************************************************************)
\* the sample of a grain at a position with an envelope amplitude
SampleAt(pos, amp) ==
  getSample([phase |-> [pos |-> pos, inc |-> 0, ovf |-> FALSE],
             env |-> [amp |-> amp, decay |-> 0, divider |-> 0, counter |-> 0]])

\* C15: the steps of a tick come in a fixed order: sync advance, grain
\* resets, grain phase advance, mixing, grain envelope ticks, master envelope
\* tick, PWM write.  So a grain restarted in the tick contributes the sample
\* at position = its increment with full-scale amplitude, any other grain the
\* sample at its advanced position with the amplitude it had before this
\* tick's decay, and the PWM value is computed from the master envelope as it
\* is after this tick's master tick.
C15_StepsInOrder ==
  [][TickStep =>
       /\ \A i \in 0..1 :
            /\ last'.reset[i] = Wraps(sync[i])
            /\ last'.smp[i] =
                 IF last'.reset[i]
                   THEN SampleAt(grains[i].phase.inc, GrainFullScale)
                   ELSE SampleAt((grains[i].phase.pos + grains[i].phase.inc) % Word,
                                 grains[i].env.amp)
       /\ env' = (IF note.gate = CLOSED THEN EnvTick(env) ELSE env)
       /\ pwm' = PwmOut((last'.smp[0] + last'.smp[1]) % Word, env')]_vars

\* a tick that restarted grain 0 (increment 6577, sample 51 * 127) and not
\* grain 1 (sample 47 * 127), decayed grain 0's envelope (32767 to 16384) and
\* the master envelope (32512 to 16256, value 63): PWM from value 63
C15_Witness ==
  /\ last.op = "tick" /\ last.reset[0] /\ ~last.reset[1]
  /\ grains[0].phase.pos = 6577 /\ last.smp[0] = 6477 /\ last.smp[1] = 5969
  /\ grains[0].env.amp = 16384
  /\ note.gate = CLOSED /\ env.amp = 16256
  /\ pwm = PwmOut(12446, env) /\ pwm # PwmOut(12446, [env EXCEPT !.amp = 32512])

(***************************************************************************)
(* Properties of the master-volume arithmetic.                             *)
(***************************************************************************)
Int8Range == -128..127
Int16Range == -32768..32767
VolumeRange == 0..127

\* the multiply-accumulate over all rescaled samples and volume values
MulAccFits ==
  /\ \A s \in Int8Range, v \in VolumeRange :
       /\ MulAcc(s, v) \in Int16Range
       /\ MulAcc(-128, 127) <= MulAcc(s, v)
       /\ MulAcc(s, v) <= MulAcc(127, 127)
  /\ MulAcc(-128, 127) = -32768
  /\ MulAcc(127, 127) = 32512

\* C16: for every rescaled sample s in -128..127 and every master volume v in
\* 0..127 the intermediate 2*s + 2*s*v stays within -32768..32767, its
\* extremes being -32768 (s = -128, v = 127) and 32512 (s = 127, v = 127); the
\* master volume is in 0..127 in every reachable state, so the interrupt's
\* multiply-accumulate never overflows.
C16_MulAccWithinInt16 ==
  /\ MulAccFits
  /\ EnvValue(env) \in VolumeRange
  /\ last.op = "tick" =>
       MulAcc(ScaledOutput((last.smp[0] + last.smp[1]) % Word), EnvValue(env))
         \in Int16Range

\* a tick at full velocity with silent grains: s = -128, v = 127, the
\* intermediate is -32768 and the PWM byte 0
C16_Witness ==
  /\ last.op = "tick" /\ note.gate = OPEN /\ note.velocity = 127
  /\ EnvValue(env) = 127
  /\ ScaledOutput((last.smp[0] + last.smp[1]) % Word) = -128
  /\ MulAcc(-128, EnvValue(env)) = -32768
  /\ pwm = 0

\* the PWM byte the output formula gives for a centered sample and a volume
PwmFormula(s, v) == ((s * (v + 1)) \div 128) + 128

\* the master envelope with volume v
VolumeEnv(v) == [Env0 EXCEPT !.amp = v * 2^8]

\* the output stage over every byte output >> 7 = t and every volume: the
\* formula, its range, its monotonicity in the sample and full volume passing
\* the byte through
PwmExact ==
  \A t \in 0..255, v \in VolumeRange :
    /\ ScaledOutput(t * 2^7) = t - 128
    /\ PwmOut(t * 2^7, VolumeEnv(v)) = PwmFormula(t - 128, v)
    /\ PwmFormula(t - 128, v) \in 0..255
    /\ t < 255 => PwmFormula(t - 128, v) <= PwmFormula(t - 127, v)
    /\ v = 127 => PwmOut(t * 2^7, VolumeEnv(v)) = t

C18_PreemptedNoteOnAsAtomic ==
  (last.op = "noteOn" /\ hpc.irq > 0) =>
    /\ note = [gate |-> OPEN, number |-> hpc.number, velocity |-> hpc.velocity]
    /\ env.amp = hpc.velocity * 256
    /\ env.decay = 1
    /\ env.divider = 4
    /\ sync[0].inc = midiTable[hpc.number - 24 + 1]
    /\ sync[1].inc = midiTable[hpc.number - 17 + 1]

\* a note-on preempted three times before its gate store, the gate still
\* CLOSED: the master envelope was ticked inside the handler (counter 3)
C18_Witness ==
  /\ last.op = "noteOn" /\ hpc.irq = 3 /\ ticks = 3 /\ events = 1
  /\ env.counter = 3
  /\ note.gate = OPEN /\ note.number = 69 /\ env.amp = 32512
  /\ sync[0].inc = 231 /\ sync[0].pos = 0

(***************************************************************************)
(* Properties of the free-running program.                                 *)
(***************************************************************************)
\* at volume 0 the output stage writes 127 or 128 whatever the mixed sample
SilentPwm ==
  \A t \in 0..255 : PwmOut(t * 2^7, VolumeEnv(0)) \in {127, 128}

\* C19: if from some point on the gate stays CLOSED (the note was released
\* and no note-on with nonzero velocity follows), then under continued ticks
\* the master volume eventually is 0 and stays 0, and every PWM value written
\* from then on is 127 or 128.
C19_ReleaseCompletes ==
  /\ SilentPwm
  /\ <>[](note.gate = CLOSED) => <>[](EnvValue(env) = 0 /\ pwm \in {127, 128})

\* long after the release of a full-velocity note: the amplitude has decayed
\* to 1, the volume is 0 and the PWM rests at 127 while grain 0 has just been
\* restarted
C19_Witness ==
  /\ note.gate = CLOSED /\ note.velocity = 127 /\ onKeys # <<>>
  /\ env.amp = 1 /\ EnvValue(env) = 0
  /\ last.op = "tick" /\ last.reset[0]
  /\ pwm = 127

\* the smallest k with k * d >= n
CeilDiv(n, d) == (n + d - 1) \div d

\* grain i has just been restarted by the interrupt: position back to one
\* advance after zero, envelope at full scale
Restarted(i) ==
  /\ last.op = "tick" /\ last.reset[i]
  /\ grains[i].phase.pos = grains[i].phase.inc
  /\ grains[i].env.amp = GrainFullScale

\* C20: while sync i runs with a constant nonzero increment d and no pitch
\* bend comes, grain i is restarted infinitely often (at every moment the
\* increment is still zero or a restart is yet to come), never more than
\* ceil(65536 / d) interrupts after its last restart; with the increments
\* still zero, as they are before the first note-on, no interrupt restarts a
\* grain.
C20_RetriggerLiveness ==
  /\ \A i \in 0..1 : []<>(sync[i].inc = 0 \/ Restarted(i))
  /\ [](\A i \in 0..1 :
          sync[i].inc # 0 => gap[i] < CeilDiv(Word, sync[i].inc))
  /\ [](\A i \in 0..1 :
          (sync[i].inc = 0 /\ last.op = "tick") => ~last.reset[i])

\* grain 0 (increment 32) restarted for the first time, 2048 interrupts after
\* the note-on; grain 1 (increment 48) was restarted 682 interrupts earlier,
\* at its 1366th
C20_Witness ==
  /\ Restarted(0) /\ led = 1
  /\ sync[0].inc = 32 /\ sync[0].pos = 0
  /\ sync[1].inc = 48 /\ sync[1].pos = 48 * 2048 - Word
  /\ gap[0] = 0 /\ gap[1] = 682

====
